---- MODULE Spec2Model ----
(***************************************************************************)
(* HyperLogLogPlusMinus<uint64_t> of src/src/hyperloglogplus.cpp: the      *)
(* sparse list of 32-bit encoded hashes, the dense register array M, the   *)
(* switch between them, and the operations add, add(vector), add(other),   *)
(* reset.                                                                  *)
(*                                                                         *)
(* Machine words are sequences of 16-bit limbs, most significant limb     *)
(* first: a uint64_t has four limbs, a uint32_t two.  Shifts, OR, AND and  *)
(* the unsigned comparison are defined limb by limb, so no word is ever    *)
(* held in an integer that could overflow.  uint8_t values (ranks, the     *)
(* index local of addToRegisters) are naturals reduced modulo 2^8.         *)
(***************************************************************************)
EXTENDS Integers, Sequences, FiniteSets, TLC

VARIABLES hll, exception, codec

vars == <<hll, exception, codec>>

-----------------------------------------------------------------------------
(* Words *)

Pow2(n) == 2 ^ n

\* bits per limb, and the limb base 2^16
LimbBits == 16
Base == Pow2(LimbBits)

\* the sequence f with every element evaluated
Force(f) == f \o <<>>

\* limb i of x, zero outside the word
Limb(x, i) == IF i >= 1 /\ i <= Len(x) THEN x[i] ELSE 0

Zeros(n) == Force([i \in 1..n |-> 0])

\* the word of n limbs holding the natural v (v < 2^31)
ToWord(v, n) == Zeros(n - 2) \o << v \div Base, v % Base >>

\* the value of a word whose value is below 2^31
ToNat(x) == Limb(x, Len(x)) + Base * Limb(x, Len(x) - 1)

\* x << k, for 0 <= k below the width of x
shl(x, k) ==
    LET q == k \div LimbBits
        r == k % LimbBits
    IN  Force([i \in 1..Len(x) |->
                  (Limb(x, i + q) % Pow2(LimbBits - r)) * Pow2(r)
                  + Limb(x, i + q + 1) \div Pow2(LimbBits - r)])

\* x >> k, for 0 <= k below the width of x
shr(x, k) ==
    LET q == k \div LimbBits
        r == k % LimbBits
    IN  Force([i \in 1..Len(x) |->
                  Limb(x, i - q) \div Pow2(r)
                  + (Limb(x, i - q - 1) % Pow2(r)) * Pow2(LimbBits - r)])

RECURSIVE or16(_, _)
or16(a, b) ==
    IF a = 0 THEN b
    ELSE IF b = 0 THEN a
    ELSE 2 * or16(a \div 2, b \div 2) + (IF a % 2 = 1 \/ b % 2 = 1 THEN 1 ELSE 0)

RECURSIVE and16(_, _)
and16(a, b) ==
    IF a = 0 \/ b = 0 THEN 0
    ELSE 2 * and16(a \div 2, b \div 2) + (IF a % 2 = 1 /\ b % 2 = 1 THEN 1 ELSE 0)

bor(x, y) == Force([i \in 1..Len(x) |-> or16(x[i], y[i])])

band(x, y) == Force([i \in 1..Len(x) |-> and16(x[i], y[i])])

\* (uint32_t) of a uint64_t: the low 32 bits
toUint32(x) == SubSeq(x, Len(x) - 1, Len(x))

\* uint8_t of an int
toUint8(n) == n % 256

\* x & 1
lsb(x) == x[Len(x)] % 2

\* unsigned a < b for words of one width
LessThan(a, b) ==
    \E i \in 1..Len(a) : a[i] < b[i] /\ \A j \in 1..(i - 1) : a[j] = b[j]

RECURSIVE bitLength(_)
\* the number of bits of v up to its leading 1
bitLength(v) == IF v = 0 THEN 0 ELSE 1 + bitLength(v \div 2)

-----------------------------------------------------------------------------
(* Helper methods for bit operations *)

clz(x) ==
    IF \A i \in 1..Len(x) : x[i] = 0 THEN LimbBits * Len(x)
    ELSE LET i == CHOOSE k \in 1..Len(x) : x[k] # 0 /\ \A j \in 1..(k - 1) : x[j] = 0
         IN  LimbBits * (i - 1) + (LimbBits - bitLength(x[i]))

extractBits(value, hi, lo) ==
    LET bitmask == shl(ToWord(Pow2(hi - lo) - 1, Len(value)), lo)
        result  == band(value, bitmask)
    IN  shr(result, lo)

extractHighBits(bits, hi) == shr(bits, LimbBits * Len(bits) - hi)

\* both overloads: the first p bits of a 64-bit or of a 32-bit word, as uint32_t
getIndex(hash_value, p) == ToNat(shr(hash_value, LimbBits * Len(hash_value) - p))

\* (T(1) << p) - 1 in a word of n limbs
trailingOnes(n, p) == ToWord(Pow2(p) - 1, n)

\* the variant of getRank that shifts in no trailing ones
getRank_noTrailingOnes(hash_value, p) == toUint8(clz(shl(hash_value, p)) + 1)

\* both overloads: p bits shifted off, p ones shifted in, leading zeros + 1
getRank(hash_value, p) ==
    LET rank_bits == bor(shl(hash_value, p), trailingOnes(Len(hash_value), p))
    IN  toUint8(clz(rank_bits) + 1)

-----------------------------------------------------------------------------
(* Sparse representation *)

pPrime == 25

getEncodedRank(encoded_hash_value, pP, p) ==
    IF lsb(encoded_hash_value) = 1
    THEN LET additional_rank == toUint8(pP - p)
         IN  toUint8(additional_rank + ToNat(extractBits(encoded_hash_value, 7, 1)))
    ELSE getRank(encoded_hash_value, p)

\* the variant of encodeHashIn32Bit that takes the stored rank at precision p
encodeHashIn32Bit_rankAtP(hash_value, p, pP) ==
    LET idx == toUint32(shl(extractHighBits(hash_value, pP), 32 - pP))
    IN  IF shl(idx, p) = Zeros(2)
        THEN LET additional_rank == getRank(hash_value, p)
             IN  bor(bor(idx, ToWord(2 * additional_rank, 2)), ToWord(1, 2))
        ELSE idx

encodeHashIn32Bit(hash_value, p, pP) ==
    LET idx == toUint32(shl(extractHighBits(hash_value, pP), 32 - pP))
    IN  IF shl(idx, p) = Zeros(2)
        THEN LET additional_rank == getRank(hash_value, pP)
             IN  bor(bor(idx, ToWord(2 * additional_rank, 2)), ToWord(1, 2))
        ELSE idx

RECURSIVE lower_bound_from(_, _, _, _)
\* std::lower_bound's loop on [first, first + count), positions counted from 1
lower_bound_from(vec, val, first, count) ==
    IF count <= 0 THEN first
    ELSE LET step == count \div 2
             it   == first + step
         IN  IF LessThan(vec[it], val)
             THEN lower_bound_from(vec, val, it + 1, count - (step + 1))
             ELSE lower_bound_from(vec, val, first, step)

lower_bound(vec, val) == lower_bound_from(vec, val, 1, Len(vec))

\* vec.insert(it, val): insert before position it
insert(vec, it, val) == SubSeq(vec, 1, it - 1) \o <<val>> \o SubSeq(vec, it, Len(vec))

\* the variant of addHashToSparseList that appends (the commented-out push_back)
addHashToSparseList_pushBack(vec, val, pP) ==
    IF \E k \in 1..Len(vec) : vec[k] = val THEN vec ELSE Append(vec, val)

addHashToSparseList(vec, val, pP) ==
    LET it == lower_bound(vec, val)
    IN  IF it = Len(vec) + 1 THEN insert(vec, it, val)
        ELSE IF vec[it] # val
        THEN IF extractHighBits(val, pP) = extractHighBits(vec[it], pP)
             THEN IF lsb(vec[it]) = lsb(val)
                  THEN IF lsb(val) = 1
                       THEN IF LessThan(vec[it], val) THEN [vec EXCEPT ![it] = val] ELSE vec
                       ELSE IF LessThan(val, vec[it]) THEN [vec EXCEPT ![it] = val] ELSE vec
                  ELSE IF lsb(val) = 1 THEN [vec EXCEPT ![it] = val] ELSE vec
             ELSE insert(vec, it, val)
        ELSE vec

-----------------------------------------------------------------------------
(* The mixer handed to the constructor: a pure total function from items   *)
(* to 64-bit hashes.  An item is a natural below 2^31; its upper 25 bits   *)
(* become the first 25 bits of the hash, and its low 6 bits t place the    *)
(* first 1 of the remaining 39 bits at position t, followed by ones (no 1  *)
(* at all when t is 0 or above 39).                                        *)

bit_mixer(item) ==
    LET t      == item % 64
        prefix == shl(ToWord(item \div 64, 4), 64 - pPrime)
        ones   == Force([i \in 1..4 |-> Base - 1])
    IN  IF t >= 1 /\ t <= 64 - pPrime
        THEN bor(prefix, shr(ones, pPrime + t - 1))
        ELSE prefix

\* the item whose hash starts with the 25 bits of idx25 and has tail t
Item(idx25, t) == idx25 * 64 + t

-----------------------------------------------------------------------------
(* HyperLogLogPlusMinus class methods.  A sketch is a record of the        *)
(* members p, m, sparse, sparseList and M; a method maps the object to the *)
(* object it leaves behind.  M[k + 1] is the register M[k] of the source.  *)

NoSketch == [p |-> 0, m |-> 0, sparse |-> FALSE, sparseList |-> <<>>, M |-> <<>>]

\* the constructor: the object built and the exception thrown, if any
HyperLogLogPlusMinus(precision, sp) ==
    IF precision > 18 \/ precision < 4
    THEN [this |-> NoSketch, thrown |-> "invalid_argument"]
    ELSE [this |-> [p |-> precision, m |-> Pow2(precision), sparse |-> sp,
                    sparseList |-> <<>>,
                    M |-> IF sp THEN <<>> ELSE Zeros(Pow2(precision))],
          thrown |-> "none"]

\* one iteration of the loop of addToRegisters
addToRegister(this, encoded_hash_value) ==
    LET idx      == toUint8(getIndex(encoded_hash_value, this.p))
        rank_val == getEncodedRank(encoded_hash_value, pPrime, this.p)
    IN  IF rank_val > this.M[idx + 1]
        THEN [this EXCEPT !.M[idx + 1] = rank_val]
        ELSE this

RECURSIVE addToRegistersRange(_, _, _, _)
\* the iterations lo..hi of the loop, in order: the first half is evaluated,
\* then the second half runs on what it left (halves keep the evaluation
\* shallow; the singleton sets fix the order of evaluation)
addToRegistersRange(this, sparseList, lo, hi) ==
    IF lo > hi THEN this
    ELSE IF lo = hi THEN addToRegister(this, sparseList[lo])
    ELSE LET mid == (lo + hi) \div 2
         IN  CHOOSE done \in { addToRegistersRange(left, sparseList, mid + 1, hi) :
                                 left \in {addToRegistersRange(this, sparseList, lo, mid)} } :
                 TRUE

addToRegisters(this, sparseList) ==
    IF Len(sparseList) = 0 THEN this
    ELSE addToRegistersRange(this, sparseList, 1, Len(sparseList))

\* the variant of switchToNormalRepresentation that leaves sparseList as it is
switchToNormalRepresentation_keepList(this) ==
    LET cleared == [this EXCEPT !.sparse = FALSE, !.M = Zeros(this.m)]
    IN  addToRegisters(cleared, this.sparseList)

switchToNormalRepresentation(this) ==
    LET cleared == [this EXCEPT !.sparse = FALSE, !.M = Zeros(this.m)]
    IN  IF Len(this.sparseList) > 0
        THEN [addToRegisters(cleared, this.sparseList) EXCEPT !.sparseList = <<>>]
        ELSE cleared

\* the variant of add that switches as soon as the list holds m/4 entries
add_switchAtGeq(this, item) ==
    LET hash_value == bit_mixer(item)
    IN  IF this.sparse
        THEN LET encoded_hash_value == encodeHashIn32Bit(hash_value, this.p, pPrime)
                 inserted == [this EXCEPT !.sparseList =
                                 addHashToSparseList(@, encoded_hash_value, pPrime)]
             IN  IF Len(inserted.sparseList) >= this.m \div 4
                 THEN switchToNormalRepresentation(inserted)
                 ELSE inserted
        ELSE LET idx  == getIndex(hash_value, this.p)
                 rank == getRank(hash_value, this.p)
             IN  IF rank > this.M[idx + 1]
                 THEN [this EXCEPT !.M[idx + 1] = rank]
                 ELSE this

add(this, item) ==
    LET hash_value == bit_mixer(item)
    IN  IF this.sparse
        THEN LET encoded_hash_value == encodeHashIn32Bit(hash_value, this.p, pPrime)
                 inserted == [this EXCEPT !.sparseList =
                                 addHashToSparseList(@, encoded_hash_value, pPrime)]
             IN  IF Len(inserted.sparseList) > this.m \div 4
                 THEN switchToNormalRepresentation(inserted)
                 ELSE inserted
        ELSE LET idx  == getIndex(hash_value, this.p)
                 rank == getRank(hash_value, this.p)
             IN  IF rank > this.M[idx + 1]
                 THEN [this EXCEPT !.M[idx + 1] = rank]
                 ELSE this

RECURSIVE add_items_range(_, _, _, _)
\* this->add(items[i]) for i in lo..hi, in order
add_items_range(this, items, lo, hi) ==
    IF lo > hi THEN this
    ELSE IF lo = hi THEN add(this, items[lo])
    ELSE LET mid == (lo + hi) \div 2
         IN  CHOOSE done \in { add_items_range(left, items, mid + 1, hi) :
                                 left \in {add_items_range(this, items, lo, mid)} } :
                 TRUE

\* add(vector<uint64_t> items)
add_items(this, items) == add_items_range(this, items, 1, Len(items))

\* the variant of reset that leaves the registers allocated
reset_keepM(this) == [this EXCEPT !.sparse = TRUE, !.sparseList = <<>>]

reset(this) == [this EXCEPT !.sparse = TRUE, !.sparseList = <<>>, !.M = <<>>]

RECURSIVE addAllToSparseListRange(_, _, _, _)
\* addHashToSparseList(vec, others[k], pPrime) for k in lo..hi, in order
addAllToSparseListRange(vec, others, lo, hi) ==
    IF lo > hi THEN vec
    ELSE IF lo = hi THEN addHashToSparseList(vec, others[lo], pPrime)
    ELSE LET mid == (lo + hi) \div 2
         IN  CHOOSE done \in { addAllToSparseListRange(left, others, mid + 1, hi) :
                                 left \in {addAllToSparseListRange(vec, others, lo, mid)} } :
                 TRUE

\* the loop of add(other) over other->sparseList
addAllToSparseList(vec, others) == addAllToSparseListRange(vec, others, 1, Len(others))

\* the variant of the register merge loop that copies other's registers
mergeRegisters_overwrite(this, other) == [this EXCEPT !.M = other.M]

\* the register merge loop of add(other)
mergeRegisters(this, other) ==
    [this EXCEPT !.M = Force([i \in 1..Len(other.M) |->
                           IF other.M[i] > this.M[i] THEN other.M[i] ELSE this.M[i]])]

\* the variant of add(other) that compares the precisions after the sparse branch
add_other_lateCheck(this, other) ==
    IF this.sparse /\ other.sparse
    THEN [thrown |-> IF this.p # other.p THEN "invalid_argument" ELSE "none",
          this |->
            IF Len(this.sparseList) + Len(other.sparseList) > this.m
            THEN addToRegisters(switchToNormalRepresentation(this), other.sparseList)
            ELSE [this EXCEPT !.sparseList = addAllToSparseList(@, other.sparseList)]]
    ELSE IF this.p # other.p
    THEN [this |-> this, thrown |-> "invalid_argument"]
    ELSE [thrown |-> "none",
          this |->
            IF other.sparse
            THEN addToRegisters(this, other.sparseList)
            ELSE mergeRegisters(IF this.sparse THEN switchToNormalRepresentation(this)
                                ELSE this,
                                other)]

\* the variant of add(other) that keeps two sparse lists sparse up to 2m entries
add_other_switchAtTwiceM(this, other) ==
    IF this.p # other.p
    THEN [this |-> this, thrown |-> "invalid_argument"]
    ELSE [thrown |-> "none",
          this |->
            IF this.sparse /\ other.sparse
            THEN IF Len(this.sparseList) + Len(other.sparseList) > 2 * this.m
                 THEN addToRegisters(switchToNormalRepresentation(this), other.sparseList)
                 ELSE [this EXCEPT !.sparseList = addAllToSparseList(@, other.sparseList)]
            ELSE IF other.sparse
            THEN addToRegisters(this, other.sparseList)
            ELSE mergeRegisters(IF this.sparse THEN switchToNormalRepresentation(this)
                                ELSE this,
                                other)]

\* add(const HyperLogLogPlusMinus* other): the object left and the exception thrown.
\* With other = this the loops read the object they write; no step of them
\* changes what a later step reads (a value found in the list is not inserted
\* again, a drained list is drained into maxima it already set), so the
\* result is that of reading other as it was at the call.
add_other(this, other) ==
    IF this.p # other.p
    THEN [this |-> this, thrown |-> "invalid_argument"]
    ELSE [thrown |-> "none",
          this |->
            IF this.sparse /\ other.sparse
            THEN IF Len(this.sparseList) + Len(other.sparseList) > this.m
                 THEN addToRegisters(switchToNormalRepresentation(this), other.sparseList)
                 ELSE [this EXCEPT !.sparseList = addAllToSparseList(@, other.sparseList)]
            ELSE IF other.sparse
            THEN addToRegisters(this, other.sparseList)
            ELSE mergeRegisters(IF this.sparse THEN switchToNormalRepresentation(this)
                                ELSE this,
                                other)]

-----------------------------------------------------------------------------
(* The sketches of a run and what the caller feeds them *)

Sketches == {1, 2}

NumSingles == 3

\* Items added one at a time.  With p = 4 the first, second and fourth share
\* one p'-index whose bits 4..24 are zero (flag bit 1) and differ in rank;
\* the second has every bit below the p'-prefix zero; the others have flag 0.
SingleItems ==
    << Item(1 * Pow2(21), 3), Item(1 * Pow2(21), 0), Item(2 * Pow2(21) + 1, 7),
       Item(1 * Pow2(21), 5), Item(9 * Pow2(21) + Pow2(12), 2),
       Item(9 * Pow2(21) + Pow2(13), 2) >>

Items == {SingleItems[k] : k \in 1..NumSingles}

\* Vectors handed to add(vector): four distinct encodings each
Batches ==
    { << Item(3 * Pow2(21) + Pow2(20), 1), Item(4 * Pow2(21) + 5, 2),
         Item(5 * Pow2(21), 9), Item(5 * Pow2(21) + Pow2(10), 4) >>,
      << Item(2 * Pow2(21) + 1, 9), Item(6 * Pow2(21) + 3, 1),
         Item(15 * Pow2(21) + Pow2(21) - 1, 0), Item(0, 0) >> }

Precisions == {3, 4, 5, 19}

IdleCodec == [stage |-> "idle", hash_value |-> <<>>, p |-> 0,
              encoded_hash_value |-> <<>>, idx |-> 0, rank |-> 0]

Init ==
    /\ hll = [i \in Sketches |-> NoSketch]
    /\ exception = "none"
    /\ codec = IdleCodec

Construct(i, precision, sp) ==
    /\ hll[i] = NoSketch
    /\ LET r == HyperLogLogPlusMinus(precision, sp)
       IN  /\ hll' = [hll EXCEPT ![i] = r.this]
           /\ exception' = r.thrown
    /\ UNCHANGED codec

AddItem(i, item) ==
    /\ hll[i] # NoSketch
    /\ hll' = [hll EXCEPT ![i] = add(@, item)]
    /\ exception' = "none"
    /\ UNCHANGED codec

AddBatch(i, items) ==
    /\ hll[i] # NoSketch
    /\ hll' = [hll EXCEPT ![i] = add_items(@, items)]
    /\ exception' = "none"
    /\ UNCHANGED codec

Merge(i, j) ==
    /\ hll[i] # NoSketch
    /\ hll[j] # NoSketch
    /\ LET r == add_other(hll[i], hll[j])
       IN  /\ hll' = [hll EXCEPT ![i] = r.this]
           /\ exception' = r.thrown
    /\ UNCHANGED codec

Reset(i) ==
    /\ hll[i] # NoSketch
    /\ hll' = [hll EXCEPT ![i] = reset(@)]
    /\ exception' = "none"
    /\ UNCHANGED codec

Next ==
    \/ \E i \in Sketches, precision \in Precisions, sp \in BOOLEAN :
          Construct(i, precision, sp)
    \/ \E i \in Sketches, item \in Items : AddItem(i, item)
    \/ \E i \in Sketches, items \in Batches : AddBatch(i, items)
    \/ \E i \in Sketches, j \in Sketches : Merge(i, j)
    \/ \E i \in Sketches : Reset(i)

Spec == Init /\ [][Next]_vars

-----------------------------------------------------------------------------
(* The same operations at precision 9, where m exceeds 256: the list       *)
(* switches at its 129th entry, which one vector of 128 items followed by  *)
(* one item reaches.                                                       *)

\* register index 300 with flag bit 0, and register index 5 with flag bit 1
Items9 == { Item(300 * Pow2(16) + Pow2(15), 1), Item(5 * Pow2(16), 4) }

\* 128 items with the register indices 1..128 at p = 9, flag bit 0
Batches9 == { Force([k \in 1..(Pow2(9) \div 4) |-> Item(k * Pow2(16) + 1, 2)]) }

Precisions9 == {9}

Next9 ==
    \/ \E i \in Sketches, precision \in Precisions9, sp \in BOOLEAN :
          Construct(i, precision, sp)
    \/ \E i \in Sketches, item \in Items9 : AddItem(i, item)
    \/ \E i \in Sketches, items \in Batches9 : AddBatch(i, items)
    \/ \E i \in Sketches, j \in Sketches : Merge(i, j)
    \/ \E i \in Sketches : Reset(i)

SpecP9 == Init /\ [][Next9]_vars

-----------------------------------------------------------------------------
(* Encoding and decoding one hash: encodeHashIn32Bit, then getIndex and    *)
(* getEncodedRank on the encoded word.                                     *)

CodecPrefixes ==
    { 0, 1, Pow2(7), Pow2(24), Pow2(24) + Pow2(10), Pow2(25) - 1, 300 * Pow2(16) }

CodecTails == {0, 1, 17, 39}

CodecItems == { Item(idx25, t) : idx25 \in CodecPrefixes, t \in CodecTails }

CodecPrecisions == 4..18

InitCodec ==
    /\ hll = [i \in Sketches |-> NoSketch]
    /\ exception = "none"
    /\ codec \in { [stage |-> "hash", hash_value |-> bit_mixer(item), p |-> precision,
                    encoded_hash_value |-> <<>>, idx |-> 0, rank |-> 0] :
                   item \in CodecItems, precision \in CodecPrecisions }

Encode ==
    /\ codec.stage = "hash"
    /\ codec' = [codec EXCEPT
                   !.stage = "encoded",
                   !.encoded_hash_value = encodeHashIn32Bit(codec.hash_value, codec.p, pPrime)]
    /\ UNCHANGED <<hll, exception>>

Decode ==
    /\ codec.stage = "encoded"
    /\ codec' = [codec EXCEPT
                   !.stage = "decoded",
                   !.idx = getIndex(codec.encoded_hash_value, codec.p),
                   !.rank = getEncodedRank(codec.encoded_hash_value, pPrime, codec.p)]
    /\ UNCHANGED <<hll, exception>>

NextCodec == Encode \/ Decode

SpecCodec == InitCodec /\ [][NextCodec]_vars

-----------------------------------------------------------------------------
(* Two objects of one precision and one mixer, the first constructed       *)
(* sparse and the second dense, on which the caller makes the same add     *)
(* calls: a step is the call on the first followed by the call on the      *)
(* second.                                                                 *)

TwinPrecisions == {4, 9}

TwinItems == Items \cup Items9

TwinBatches == Batches \cup Batches9

ConstructTwin(precision) ==
    /\ \A i \in Sketches : hll[i] = NoSketch
    /\ hll' = [i \in Sketches |-> HyperLogLogPlusMinus(precision, i = 1).this]
    /\ exception' = HyperLogLogPlusMinus(precision, TRUE).thrown
    /\ UNCHANGED codec

AddItemTwin(item) ==
    /\ \A i \in Sketches : hll[i] # NoSketch
    /\ hll' = [i \in Sketches |-> add(hll[i], item)]
    /\ exception' = "none"
    /\ UNCHANGED codec

AddBatchTwin(items) ==
    /\ \A i \in Sketches : hll[i] # NoSketch
    /\ hll' = [i \in Sketches |-> add_items(hll[i], items)]
    /\ exception' = "none"
    /\ UNCHANGED codec

NextTwin ==
    \/ \E precision \in TwinPrecisions : ConstructTwin(precision)
    \/ \E item \in TwinItems : AddItemTwin(item)
    \/ \E items \in TwinBatches : AddBatchTwin(items)

SpecTwin == Init /\ [][NextTwin]_vars

-----------------------------------------------------------------------------
(* Sketches of precision 4 filled by merging: a vector of four items       *)
(* leaves a sparse list at its limit of m/4 entries, and merges of such    *)
(* lists grow the receiver's list four entries at a time.                  *)

NumFill == 4

\* four items of register index 1 and rank 1 at p = 4, with four p'-indexes
\* that no other vector has
FillBatch(k) ==
    << Item(3 * Pow2(20) + k, 1), Item(3 * Pow2(20) + 16 + k, 2),
       Item(3 * Pow2(20) + 32 + k, 3), Item(3 * Pow2(20) + 48 + k, 0) >>

FillBatches == { FillBatch(k) : k \in 1..NumFill }

\* one more item, of register index 15, encoded with flag bit 1
FillItems == { Item(15 * Pow2(21), 6) }

FillPrecisions == {4}

NextFill ==
    \/ \E i \in Sketches, precision \in FillPrecisions, sp \in BOOLEAN :
          Construct(i, precision, sp)
    \/ \E i \in Sketches, item \in FillItems : AddItem(i, item)
    \/ \E i \in Sketches, items \in FillBatches : AddBatch(i, items)
    \/ \E i \in Sketches, j \in Sketches : Merge(i, j)
    \/ \E i \in Sketches : Reset(i)

SpecFill == Init /\ [][NextFill]_vars

-----------------------------------------------------------------------------
(* Properties *)

Constructed(i) == hll[i] # NoSketch

\* the p'-index of an encoded word: its first pPrime bits
PrimeIndex(encoded_hash_value) == extractHighBits(encoded_hash_value, pPrime)

\* the sketch in dense form: switched if it is sparse
ForcedDense(this) == IF this.sparse THEN switchToNormalRepresentation(this) ELSE this

\* C1: in a sparse sketch no two entries of sparseList share a p'-index.
C1_UniquePrimeIndex ==
    \A i \in Sketches :
        (Constructed(i) /\ hll[i].sparse) =>
            \A a, b \in 1..Len(hll[i].sparseList) :
                a # b => PrimeIndex(hll[i].sparseList[a]) # PrimeIndex(hll[i].sparseList[b])

\* C2: in every reachable state, for every item, add(item) right after
\* add(item) leaves the sketch as the first add left it.
C2_IdempotentAdd ==
    \A i \in Sketches, item \in Items \cup Items9 :
        Constructed(i) => add(add(hll[i], item), item) = add(hll[i], item)

\* C3: a sketch is sparse exactly when M is empty, and a dense sketch has an
\* empty sparseList and m registers.
C3_ModeExclusivity ==
    \A i \in Sketches :
        Constructed(i) =>
            /\ hll[i].sparse <=> Len(hll[i].M) = 0
            /\ ~hll[i].sparse => (Len(hll[i].sparseList) = 0 /\ Len(hll[i].M) = hll[i].m)
            /\ hll[i].m = Pow2(hll[i].p)

C3_Witness ==
    \E i, j \in Sketches :
        /\ Constructed(i) /\ ~hll[i].sparse /\ \E k \in 1..Len(hll[i].M) : hll[i].M[k] > 0
        /\ Constructed(j) /\ hll[j].sparse /\ Len(hll[j].sparseList) > hll[j].m \div 4

\* C4: sparseList is strictly ascending.
C4_StrictlyAscending ==
    \A i \in Sketches :
        Constructed(i) =>
            \A k \in 1..(Len(hll[i].sparseList) - 1) :
                LessThan(hll[i].sparseList[k], hll[i].sparseList[k + 1])

C4_Witness ==
    \E i \in Sketches :
        /\ Constructed(i) /\ hll[i].sparse
        /\ Len(hll[i].sparseList) > hll[i].m \div 4
        /\ \E k \in 1..(Len(hll[i].sparseList) - 1) :
              PrimeIndex(hll[i].sparseList[k]) = PrimeIndex(hll[i].sparseList[k + 1])

\* C5: every register of a dense sketch is at most 64 - p + 1.
C5_RegisterBound ==
    \A i \in Sketches :
        (Constructed(i) /\ ~hll[i].sparse) =>
            \A k \in 1..Len(hll[i].M) : hll[i].M[k] <= 64 - hll[i].p + 1

C5_Witness ==
    \E i \in Sketches :
        /\ Constructed(i) /\ ~hll[i].sparse
        /\ \E k \in 1..Len(hll[i].M) : hll[i].M[k] = 64 - hll[i].p + 1
        /\ \E k \in 1..Len(hll[i].M) : hll[i].M[k] \in 1..(pPrime - hll[i].p)

\* C6: the index and the rank decoded from encodeHashIn32Bit(h, p, 25) are
\* getIndex(h, p) and getRank(h, p).
C6_RoundTrip ==
    codec.stage = "decoded" =>
        /\ codec.idx = getIndex(codec.hash_value, codec.p)
        /\ codec.rank = getRank(codec.hash_value, codec.p)

C6_Witness ==
    /\ codec.stage = "decoded"
    /\ lsb(codec.encoded_hash_value) = 1
    /\ codec.rank = 64 - codec.p + 1
    /\ codec.idx > 0

\* C7: for two sketches of one precision, merging the second into the first
\* and the first into the second give the same registers in dense form.
C7_MergeCommutes ==
    \A i, j \in Sketches :
        (i < j /\ Constructed(i) /\ Constructed(j) /\ hll[i].p = hll[j].p) =>
            ForcedDense(add_other(hll[i], hll[j]).this).M
                = ForcedDense(add_other(hll[j], hll[i]).this).M

C7_Witness ==
    \E i, j \in Sketches :
        /\ Constructed(i) /\ Constructed(j) /\ hll[i].p = hll[j].p
        /\ hll[i].sparse /\ Len(hll[i].sparseList) > 0
        /\ ~hll[j].sparse
        /\ ForcedDense(add_other(hll[i], hll[j]).this).M # hll[j].M
        /\ ForcedDense(add_other(hll[i], hll[j]).this).M # ForcedDense(hll[i]).M

\* C8: add(item) on a sparse sketch leaves it sparse when the list holds at
\* most m/4 entries after the insertion, and dense when it holds more.
C8_SwitchThreshold ==
    \A i \in Sketches, item \in Items :
        (Constructed(i) /\ hll[i].sparse) =>
            LET encoded_hash_value == encodeHashIn32Bit(bit_mixer(item), hll[i].p, pPrime)
                size == Len(addHashToSparseList(hll[i].sparseList, encoded_hash_value, pPrime))
            IN  add(hll[i], item).sparse <=> size <= hll[i].m \div 4

C8_Witness ==
    \E i \in Sketches :
        /\ Constructed(i) /\ hll[i].sparse
        /\ Len(hll[i].sparseList) = hll[i].m \div 4
        /\ \E item \in Items : ~add(hll[i], item).sparse
        /\ \E item \in Items : add(hll[i], item).sparse

\* C9: a constructor call with a precision outside 4..18 and a merge of
\* sketches of unequal precision throw, and a step that throws leaves every
\* sketch as it was.
C9_FailureLeavesState ==
    [][ /\ exception' = "invalid_argument" => hll' = hll
        /\ \A i, j \in Sketches :
              (Constructed(i) /\ Constructed(j) /\ hll[i].p # hll[j].p /\ Merge(i, j))
                  => exception' = "invalid_argument"
        /\ \A i \in Sketches, precision \in (Precisions \cup Precisions9) \ (4..18),
              sp \in BOOLEAN :
              Construct(i, precision, sp) =>
                  (exception' = "invalid_argument" /\ hll'[i] = NoSketch)
      ]_vars

C9_Witness ==
    /\ exception = "invalid_argument"
    /\ \E i, j \in Sketches :
          /\ Constructed(i) /\ Constructed(j) /\ hll[i].p # hll[j].p
          /\ hll[i].sparse /\ Len(hll[i].sparseList) > 0
          /\ hll[j].sparse /\ Len(hll[j].sparseList) > 0

\* C10: a step that takes a dense sketch to sparse is reset() of that sketch,
\* and leaves it with an empty sparseList and no registers.
C10_OneWay ==
    [][ \A i \in Sketches :
           (Constructed(i) /\ ~hll[i].sparse /\ hll'[i].sparse) =>
               /\ Reset(i)
               /\ hll'[i].sparseList = <<>>
               /\ hll'[i].M = <<>>
      ]_vars

C10_Witness ==
    \E i \in Sketches :
        /\ Constructed(i) /\ ~hll[i].sparse
        /\ \E k \in 1..Len(hll[i].M) : hll[i].M[k] > 0
        /\ reset(hll[i]).sparse
        /\ \A item \in Items : ~add(hll[i], item).sparse
        /\ \A j \in Sketches : Constructed(j) /\ hll[j].p = hll[i].p
                                  => ~add_other(hll[i], hll[j]).this.sparse

\* C11: when the same add calls were made on an object constructed sparse
\* and on one constructed dense, and the first has become dense, the two hold
\* the same registers.
C11_SwitchPreservesContent ==
    (Constructed(1) /\ Constructed(2) /\ ~hll[1].sparse) => hll[1].M = hll[2].M

\* the larger of two ranks
Max(a, b) == IF a > b THEN a ELSE b

\* the largest element of a set of ranks, 0 for the empty set
MaxOf(ranks) == IF ranks = {} THEN 0 ELSE CHOOSE r \in ranks : \A o \in ranks : o <= r

\* The dense form of a sketch: its registers if it is dense; if it is sparse,
\* the array in which register getIndex(e, p), all p bits of it, holds the
\* largest getEncodedRank(e, pPrime, p) over the list entries e, and 0 elsewhere.
DenseForm(this) ==
    IF ~this.sparse THEN this.M
    ELSE LET n    == Len(this.sparseList)
             idx  == Force([k \in 1..n |-> getIndex(this.sparseList[k], this.p)])
             rank == Force([k \in 1..n |->
                              getEncodedRank(this.sparseList[k], pPrime, this.p)])
         IN  Force([r \in 1..this.m |->
                      MaxOf({ rank[k] : k \in { l \in 1..n : idx[l] = r - 1 } })])

\* C12: when merging one sketch into another of the same precision leaves
\* the receiver dense, each of its registers is the larger of the two
\* registers of the dense forms the sketches had before the merge.
C12_MergeIsRegisterMax ==
    \A i, j \in Sketches :
        (Constructed(i) /\ Constructed(j) /\ hll[i].p = hll[j].p) =>
            LET merged == add_other(hll[i], hll[j]).this
            IN  ~merged.sparse =>
                    LET a == DenseForm(hll[i])
                        b == DenseForm(hll[j])
                    IN  merged.M = Force([r \in 1..hll[i].m |-> Max(a[r], b[r])])

\* C13 as stated: a sparse sketch holds at most m/4 list entries.
C13_QuarterBound ==
    \A i \in Sketches :
        (Constructed(i) /\ hll[i].sparse) => Len(hll[i].sparseList) <= hll[i].m \div 4

\* C13: a sparse sketch holds at most m list entries, and at most m/4 when
\* it is what add(item) has just left sparse.
C13_SparseBound ==
    \A i \in Sketches :
        (Constructed(i) /\ hll[i].sparse) =>
            /\ Len(hll[i].sparseList) <= hll[i].m
            /\ \A item \in Items \cup FillItems :
                  LET added == add(hll[i], item)
                  IN  added.sparse => Len(added.sparseList) <= hll[i].m \div 4

C13_Witness ==
    \E i \in Sketches :
        /\ Constructed(i) /\ hll[i].sparse
        /\ Len(hll[i].sparseList) = hll[i].m
        /\ \E j \in Sketches, item \in FillItems :
              /\ Constructed(j) /\ hll[j].sparse
              /\ add(hll[j], item).sparse
              /\ Len(add(hll[j], item).sparseList) > 0
              /\ ~add(hll[i], item).sparse

\* q of ertlCardinality: 64 - pPrime for a sparse sketch, 64 - p for a dense one
ertlQ(this) == IF this.sparse THEN 64 - pPrime ELSE 64 - this.p

\* the positions rank_val at which the loop of sparseRegisterHistogram
\* increments C, one for each entry of the list
sparseRegisterHistogramRanks(sparseList, pP, p) ==
    Force([k \in 1..Len(sparseList) |-> getEncodedRank(sparseList[k], pP, p)])

\* C14: for a sparse sketch every position of C that ertlCardinality
\* increments is at most q + 1 = 64 - pPrime + 1, the last position of C.
C14_HistogramInBounds ==
    \A i \in Sketches :
        (Constructed(i) /\ hll[i].sparse) =>
            LET rank_val == sparseRegisterHistogramRanks(hll[i].sparseList, pPrime, hll[i].p)
            IN  \A k \in 1..Len(rank_val) : rank_val[k] <= ertlQ(hll[i]) + 1

\* C15: for a sparse sketch and two items, add of the first and then of the
\* second leaves the same sparseList as add of the second and then of the
\* first, when both orders leave the sketch sparse.
C15_OrderIndependent ==
    \A i \in Sketches, x, y \in Items :
        (Constructed(i) /\ hll[i].sparse) =>
            LET xy == add(add(hll[i], x), y)
                yx == add(add(hll[i], y), x)
            IN  (xy.sparse /\ yx.sparse) => xy.sparseList = yx.sparseList

====
